---------------------------- MODULE Spec2Model ----------------------------
(***************************************************************************)
(* A model of the aws-learn Express application: the app (app.mjs), the    *)
(* user router (routes/user.mjs), the user controllers, the User model,    *)
(* the Dynamodb singleton wrapper and the DynamoDB service it talks to.    *)
(*                                                                         *)
(* Strings are JavaScript strings; template literals are concatenations.   *)
(* A request path is the sequence of its segments: "/" is <<>>, "/u1" is   *)
(* <<"u1">>, "/api/v1/health" is <<"api", "v1", "health">>.                *)
(*                                                                         *)
(* Requests enter at two places: at the app (app.mjs) and at userRoute,    *)
(* the router that routes/user.mjs exports.  An error a controller hands   *)
(* to next(error) reaches errorHandler, the only error middleware.         *)
(*                                                                         *)
(* Six specifications share the state: Spec (requests to the app and to    *)
(* userRoute, creates in flight together), SpecCreate (creates one at a    *)
(* time, with complete and incomplete bodies), SpecDb (direct calls of the *)
(* Dynamodb wrapper), SpecPw (calls of the Password helper), SpecSetup     *)
(* (the setup script of db.mjs beside creates) and SpecScan (a populated   *)
(* table read page by page and through GET /).                             *)
(***************************************************************************)
EXTENDS Naturals, Sequences, FiniteSets, Bags, TLC

(* ------------------------------ bounds --------------------------------- *)

\* Requests the router has in flight at once (awaiting bcrypt or DynamoDB).
MaxReqs == 2

\* How many distinct values v4() can return.
NumIds == 2

(* --------------------------- JavaScript values -------------------------- *)

Undefined == "<undefined>"

Null == "<null>"

IdPool ==
    <<"u1", "u2", "u3", "u4", "u5", "u6", "u7", "u8", "u9", "u10", "u11", "u12",
      "u13", "u14", "u15", "u16", "u17", "u18", "u19", "u20", "u21", "u22">>

\* The values v4() draws from.
Ids == {IdPool[i] : i \in 1..NumIds}

\* The values new Date().toISOString() draws from.
Times == {"2025-01-01T00:00:00.000Z"}

\* The salts bcrypt.genSalt(12) draws from.
Salts == {"s1"}

Names == {"alice", "bob"}

NoBody == [none |-> TRUE]

\* Request bodies of POST /: the validators reject nothing, so a body may
\* lack its password.
Bodies ==
    {[name |-> n, email |-> "a@x.io", mobile |-> "5550100", password |-> "pw1"] : n \in Names}
    \cup {[name |-> "alice", email |-> "a@x.io", mobile |-> "5550100", password |-> Undefined]}

\* The fields of a create body the route validates with notEmpty().
Required == {"name", "email", "password", "mobile"}

CompleteBody == [name |-> "alice", email |-> "a@x.io", mobile |-> "5550100", password |-> "pw1"]

\* Bodies that lack one field: the JSON has no such key, or has it as "".
IncompleteBodies ==
    {[k \in Required \ {lost} |-> CompleteBody[k]] : lost \in Required}
    \cup {[CompleteBody EXCEPT ![lost] = ""] : lost \in Required}

NoError == [name |-> "", message |-> "", status |-> 0]

Error(name, message, status) == [name |-> name, message |-> message, status |-> status]

NoResponse == [status |-> 0, body |-> <<>>]

\* {...defaults, ...params}: a later spread wins, key by key.
Spread(defaults, params) ==
    [k \in DOMAIN defaults \cup DOMAIN params |->
        IF k \in DOMAIN params THEN params[k] ELSE defaults[k]]

\* v === undefined, for a value of any type.
IsUndefined(v) == ToString(v) = ToString(Undefined)

\* !v, for a string or an object: undefined and "" are falsy.
Falsy(v) == ToString(v) \in {ToString(Undefined), ToString("")}

Has(obj, k) == k \in DOMAIN obj /\ ~IsUndefined(obj[k])

(* --------------------------- the DynamoDB service ----------------------- *)
(* External: a table is a set of items, at most one per primary key        *)
(* (PK, SK).  A command is processed atomically; a command that fails      *)
(* changes nothing.                                                        *)

PKOf(id) == "USER#" \o id

KeyOf(item) == [PK |-> item.PK, SK |-> item.SK]

\* The service's stable order of the keys.
Rank(key) ==
    IF \E i \in 1..Len(IdPool) : key.PK = PKOf(IdPool[i])
    THEN CHOOSE i \in 1..Len(IdPool) : key.PK = PKOf(IdPool[i])
    ELSE 0

RECURSIVE InOrder(_)
InOrder(items) ==
    IF items = {} THEN <<>>
    ELSE LET first == CHOOSE i \in items : \A j \in items : Rank(KeyOf(i)) <= Rank(KeyOf(j))
         IN  <<first>> \o InOrder(items \ {first})

Take(seq, n) == SubSeq(seq, 1, IF n < Len(seq) THEN n ELSE Len(seq))

ResourceNotFound == Error("ResourceNotFoundException", "Requested resource not found", 0)

ConditionalCheckFailed == Error("ConditionalCheckFailedException", "The conditional request failed", 0)

ValidationError == Error("ValidationException", "One or more parameter values were invalid", 0)

ServiceUnavailable == Error("ServiceUnavailable", "Service Unavailable", 0)

Reply(tbls, err, output) == [tables |-> tbls, err |-> err, output |-> output]

PutItem(tbls, input) ==
    IF ~Has(input, "Item") THEN Reply(tbls, ValidationError, <<>>)
    ELSE LET T == input.TableName
             existing == {i \in tbls[T] : KeyOf(i) = KeyOf(input.Item)}
             cond == IF Has(input, "ConditionExpression")
                     THEN input.ConditionExpression ELSE ""
         IN  IF \/ cond = "attribute_not_exists(PK)" /\ existing # {}
                \/ cond = "attribute_exists(PK)" /\ existing = {}
             THEN Reply(tbls, ConditionalCheckFailed, <<>>)
             ELSE Reply([tbls EXCEPT ![T] = (@ \ existing) \cup {input.Item}], NoError, <<>>)

QueryItems(tbls, input) ==
    IF Has(input, "KeyConditionExpression")
        /\ input.KeyConditionExpression = "PK = :pk"
        /\ Has(input, "ExpressionAttributeValues")
        /\ Has(input.ExpressionAttributeValues, ":pk")
        /\ input.ExpressionAttributeValues[":pk"] # ""
    THEN LET found == {i \in tbls[input.TableName] :
                          i.PK = input.ExpressionAttributeValues[":pk"]}
         IN  Reply(tbls, NoError, [Items |-> InOrder(found), Count |-> Cardinality(found)])
    ELSE Reply(tbls, ValidationError, <<>>)

ScanItems(tbls, input) ==
    LET all == InOrder(tbls[input.TableName])
        after == IF Has(input, "ExclusiveStartKey")
                 THEN SelectSeq(all, LAMBDA i : Rank(KeyOf(i)) > Rank(input.ExclusiveStartKey))
                 ELSE all
        page == IF Has(input, "Limit") THEN Take(after, input.Limit) ELSE after
    IN  Reply(tbls, NoError,
              [Items |-> page,
               LastEvaluatedKey |-> IF Len(page) < Len(after)
                                    THEN KeyOf(page[Len(page)]) ELSE Undefined])

GetItem(tbls, input) ==
    IF ~Has(input, "Key") THEN Reply(tbls, ValidationError, <<>>)
    ELSE LET found == {i \in tbls[input.TableName] : KeyOf(i) = input.Key}
         IN  Reply(tbls, NoError,
                   [Item |-> IF found = {} THEN Undefined ELSE CHOOSE i \in found : TRUE])

DeleteItem(tbls, input) ==
    IF ~Has(input, "Key") THEN Reply(tbls, ValidationError, <<>>)
    ELSE Reply([tbls EXCEPT ![input.TableName] = {i \in @ : KeyOf(i) # input.Key}],
               NoError, <<>>)

\* UpdateItem with UpdateExpression "SET active = :a": an upsert.
UpdateItem(tbls, input) ==
    IF ~Has(input, "Key") \/ ~Has(input, "UpdateExpression")
        \/ input.UpdateExpression # "SET active = :a"
        \/ ~Has(input, "ExpressionAttributeValues")
    THEN Reply(tbls, ValidationError, <<>>)
    ELSE LET T == input.TableName
             found == {i \in tbls[T] : KeyOf(i) = input.Key}
             old == IF found = {} THEN input.Key ELSE CHOOSE i \in found : TRUE
             new == Spread(old, [active |-> input.ExpressionAttributeValues[":a"]])
         IN  Reply([tbls EXCEPT ![T] = (@ \ found) \cup {new}], NoError, <<>>)

\* What the service does with one command.
DynamoDB(tbls, cmd) ==
    IF ~Has(cmd.input, "TableName") THEN Reply(tbls, ValidationError, <<>>)
    ELSE IF cmd.input.TableName \notin DOMAIN tbls THEN Reply(tbls, ResourceNotFound, <<>>)
    ELSE CASE cmd.type = "PutCommand" -> PutItem(tbls, cmd.input)
           [] cmd.type = "QueryCommand" -> QueryItems(tbls, cmd.input)
           [] cmd.type = "ScanCommand" -> ScanItems(tbls, cmd.input)
           [] cmd.type = "GetCommand" -> GetItem(tbls, cmd.input)
           [] cmd.type = "DeleteCommand" -> DeleteItem(tbls, cmd.input)
           [] cmd.type = "UpdateCommand" -> UpdateItem(tbls, cmd.input)


(* ------------------- core/aws/dynamodb.mjs: the wrapper ----------------- *)

TableName == "SocialApp"

ScanLimit == 20

Command(type, input) == [type |-> type, input |-> input]

\* Mutant: the caller's ConditionExpression (and every key but Item) is lost.
Dynamodb_create_itemOnly(params) ==
    Command("PutCommand", [TableName |-> TableName, Item |-> params.Item])

Dynamodb_create(params) == Command("PutCommand", Spread([TableName |-> TableName], params))

Dynamodb_update(params) == Command("UpdateCommand", Spread([TableName |-> TableName], params))

\* Mutant: { ...params, TableName }, the default spread last.
Dynamodb_delete_defaultLast(params) ==
    Command("DeleteCommand", Spread(params, [TableName |-> TableName]))

Dynamodb_delete(params) == Command("DeleteCommand", Spread([TableName |-> TableName], params))

Dynamodb_get(params) == Command("GetCommand", Spread([TableName |-> TableName], params))

\* a || b on strings and objects: b when a is missing, undefined or "".
OrElse(obj, k, default) ==
    IF k \in DOMAIN obj /\ ~Falsy(obj[k]) THEN obj[k] ELSE default

Dynamodb_query(params) ==
    LET KeyConditionExpression == OrElse(params, "KeyConditionExpression", "PK = :pk")
        ExpressionAttributeValues ==
            OrElse(params, "ExpressionAttributeValues", [x \in {":pk"} |-> ""])
    IN  Command("QueryCommand",
                Spread([TableName |-> TableName,
                        KeyConditionExpression |-> KeyConditionExpression,
                        ExpressionAttributeValues |-> ExpressionAttributeValues],
                       params))

\* Mutant: the start key of the caller not passed on.
Dynamodb_scan_fromStart(params) ==
    LET limit == IF Has(params, "limit") THEN params.limit ELSE ScanLimit
        rest == [k \in DOMAIN params \ {"limit", "startKey"} |-> params[k]]
    IN  Command("ScanCommand",
                Spread([TableName |-> TableName, Limit |-> limit,
                        ExclusiveStartKey |-> Undefined],
                       rest))

\* scan({ limit = 20, startKey = undefined, ...rest })
Dynamodb_scan(params) ==
    LET limit == IF Has(params, "limit") THEN params.limit ELSE ScanLimit
        startKey == IF Has(params, "startKey") THEN params.startKey ELSE Undefined
        rest == [k \in DOMAIN params \ {"limit", "startKey"} |-> params[k]]
    IN  Command("ScanCommand",
                Spread([TableName |-> TableName, Limit |-> limit,
                        ExclusiveStartKey |-> startKey],
                       rest))

UndefinedValue ==
    Error("Error", "Pass options.removeUndefinedValues=true to remove undefined values from map/array/set.", 0)

\* DynamoDBDocumentClient.from(client), with its default marshallOptions: an
\* Item with an undefined attribute is not marshalled, the send rejects.
Marshallable(cmd) ==
    (cmd.type = "PutCommand" /\ Has(cmd.input, "Item"))
        => \A k \in DOMAIN cmd.input.Item : ~IsUndefined(cmd.input.Item[k])

Ops == {"create", "update", "delete", "get", "query", "scan"}

CommandOf(op, params) ==
    CASE op = "create" -> Dynamodb_create(params)
      [] op = "update" -> Dynamodb_update(params)
      [] op = "delete" -> Dynamodb_delete(params)
      [] op = "get" -> Dynamodb_get(params)
      [] op = "query" -> Dynamodb_query(params)
      [] op = "scan" -> Dynamodb_scan(params)

\* What an operation returns from the output of its command.  A value is
\* held in a sequence: <<v>>, or <<>> for undefined.
ValueOf(op, output) ==
    CASE op = "query" -> Take(output.Items, 1)
      [] op = "scan" -> <<[items |-> output.Items, nextKey |-> output.LastEvaluatedKey]>>
      [] OTHER -> <<output>>

NoCall == [op |-> "", params |-> <<>>, cmds |-> <<>>, pc |-> "", err |-> NoError, value |-> <<>>]

\* An operation up to its await: the command is built and sent.
Dynamodb_call(op, params) ==
    [op |-> op, params |-> params, cmds |-> <<CommandOf(op, params)>>,
     pc |-> "await", err |-> NoError, value |-> <<>>]

\* Mutant: a rejected send is sent again.
Dynamodb_settle_retry(call, reply) ==
    IF reply.err # NoError
    THEN [call EXCEPT !.cmds = Append(@, @[1])]
    ELSE [call EXCEPT !.pc = "returned", !.value = ValueOf(call.op, reply.output)]

\* An operation after its await: it returns a value or throws the error of
\* the send (create logs the error and rethrows it).
Dynamodb_settle(call, reply) ==
    IF reply.err # NoError
    THEN [call EXCEPT !.pc = "thrown", !.err = reply.err]
    ELSE [call EXCEPT !.pc = "returned", !.value = ValueOf(call.op, reply.output)]

(* ---------------------------- utils/password.mjs ------------------------ *)

IllegalArguments == Error("Error", "Illegal arguments: undefined, string", 0)

\* The bytes of a password that enter bcrypt's key schedule.
BcryptMaxBytes == 72

\* What bcrypt keeps of a password (of one-byte characters).
Truncate(password) ==
    IF Len(password) > BcryptMaxBytes THEN SubSeq(password, 1, BcryptMaxBytes) ELSE password

\* bcrypt.hash(password, salt) for a string password and a salt of two
\* characters: version, cost, salt, and the digest of what bcrypt keeps of
\* the password.
Bcrypt(password, salt) == "$2a$12$" \o salt \o "$" \o Truncate(password)

\* The salt a hash carries after its version and cost.
SaltOf(hash) == SubSeq(hash, 8, 9)

\* Mutant: the password returned as it came.
Password_hash_plain(password, salt) ==
    IF password = Undefined THEN <<>> ELSE <<password>>

\* Password.hash: <<hash>>, or <<>> when bcrypt rejects (not a string).
Password_hash(password, salt) ==
    IF password = Undefined THEN <<>> ELSE <<Bcrypt(password, salt)>>

\* Password.compare: bcrypt.compare hashes the password with the salt of
\* the hash and compares the two hashes.
Password_compare(password, hash) == Bcrypt(password, SaltOf(hash)) = hash

(* ------------------------------ models/user.mjs ------------------------- *)

Field(params, k) == IF k \in DOMAIN params THEN params[k] ELSE Undefined

\* Mutant: the keys of the earlier draft of the model, without the id.
Item_draft(params, userId, now, hashPassword) ==
    [PK |-> "USER#",
     SK |-> "POST#",
     entityType |-> "USER",
     name |-> Field(params, "name"),
     email |-> Field(params, "email"),
     userId |-> userId,
     mobile |-> Field(params, "mobile"),
     password |-> hashPassword,
     active |-> TRUE,
     avatar |-> Null,
     createdAt |-> now,
     updatedAt |-> now]

\* Mutant: updatedAt read from the clock a second time.
Item_twoClocks(params, userId, now, hashPassword) ==
    [PK |-> "USER#" \o userId,
     SK |-> "PROFILE#" \o userId,
     entityType |-> "USER",
     name |-> Field(params, "name"),
     email |-> Field(params, "email"),
     userId |-> userId,
     mobile |-> Field(params, "mobile"),
     password |-> hashPassword,
     active |-> TRUE,
     avatar |-> Null,
     createdAt |-> now,
     updatedAt |-> now \o "+1ms"]

\* Mutant: the item keyed by its email, which would make the email unique.
Item_byEmail(params, userId, now, hashPassword) ==
    [PK |-> "USER#" \o Field(params, "email"),
     SK |-> "PROFILE#" \o Field(params, "email"),
     entityType |-> "USER",
     name |-> Field(params, "name"),
     email |-> Field(params, "email"),
     userId |-> userId,
     mobile |-> Field(params, "mobile"),
     password |-> hashPassword,
     active |-> TRUE,
     avatar |-> Null,
     createdAt |-> now,
     updatedAt |-> now]

Item(params, userId, now, hashPassword) ==
    [PK |-> "USER#" \o userId,
     SK |-> "PROFILE#" \o userId,
     entityType |-> "USER",
     name |-> Field(params, "name"),
     email |-> Field(params, "email"),
     userId |-> userId,
     mobile |-> Field(params, "mobile"),
     password |-> hashPassword,
     active |-> TRUE,
     avatar |-> Null,
     createdAt |-> now,
     updatedAt |-> now]

\* Mutant: the condition inverted.
User_create_exists(params, userId, now, hashPassword) ==
    Dynamodb_call("create",
        [Item |-> Item(params, userId, now, hashPassword),
         ConditionExpression |-> "attribute_exists(PK)"])

\* Mutant: the put without its condition.
User_create_unconditional(params, userId, now, hashPassword) ==
    Dynamodb_call("create", [Item |-> Item(params, userId, now, hashPassword)])

\* User.create after its hash: db.create({ Item, ConditionExpression }).
User_create(params, userId, now, hashPassword) ==
    Dynamodb_call("create",
        [Item |-> Item(params, userId, now, hashPassword),
         ConditionExpression |-> "attribute_not_exists(PK)"])

User_getUser(userId) ==
    Dynamodb_call("query", [ExpressionAttributeValues |-> [x \in {":pk"} |-> userId]])

\* User.getUsers(params = {})
User_getUsers(params) == Dynamodb_call("scan", params)

(* ----------------------------- middleware ------------------------------ *)

Response(status, body) == [status |-> status, body |-> body]

\* Mutant: the status taken from the error when it carries one.
errorHandler_status(error) ==
    Response(IF error.status # 0 THEN error.status ELSE 500,
             [error |-> [message |-> error.message]])

errorHandler(error) == Response(500, [error |-> [message |-> error.message]])

Pid == "<process.pid>"

\* Mutant: the health of the server reported without its version.
healthCheck_unversioned == Response(200, [message |-> "OK", pid |-> Pid])

healthCheck == Response(200, [message |-> "Server is healthy", version |-> "1.0.0", pid |-> Pid])

(* --------------------------- controller/user.mjs ------------------------ *)
(* A controller ends in res.status(200).json(...) or in next(error).       *)

Json(resp) == [kind |-> "json", resp |-> resp, error |-> NoError]

NextError(error) == [kind |-> "next", resp |-> NoResponse, error |-> error]

Envelope(data, message) == Response(200, [data |-> data, message |-> message, success |-> TRUE])

TypeError == Error("TypeError", "Cannot set properties of undefined (setting 'password')", 0)

\* Mutant: the user answered as it was read.
getUser_unmasked(call) ==
    IF call.pc = "thrown" THEN NextError(call.err)
    ELSE IF call.value = <<>> THEN NextError(TypeError)
    ELSE Json(Envelope(call.value[1], "Fetch user"))

\* Mutant: the mask applied only to a user that was found.
getUser_guarded(call) ==
    IF call.pc = "thrown" THEN NextError(call.err)
    ELSE IF call.value = <<>> THEN Json(Envelope(Undefined, "Fetch user"))
    ELSE Json(Envelope([call.value[1] EXCEPT !.password = "****"], "Fetch user"))

\* getUser after await User.getUser(userId).
getUser(call) ==
    IF call.pc = "thrown" THEN NextError(call.err)
    ELSE IF call.value = <<>> THEN NextError(TypeError)
    ELSE Json(Envelope([call.value[1] EXCEPT !.password = "****"], "Fetch user"))

\* getUsers after await User.getUsers().
getUsers(call) ==
    IF call.pc = "thrown" THEN NextError(call.err)
    ELSE Json(Envelope(call.value[1], "Fetch user"))

\* Mutant: the envelope sent from the catch block as well, before next.
createUser_both(call) ==
    IF call.pc = "thrown"
    THEN [kind |-> "next", resp |-> Envelope(Undefined, "User created"), error |-> call.err]
    ELSE Json(Envelope(call.value[1], "User created"))

\* createUser after await User.create(req.body).
createUser(call) ==
    IF call.pc = "thrown" THEN NextError(call.err)
    ELSE Json(Envelope(call.value[1], "User created"))

(* ------------------------------ routes/user.mjs ------------------------- *)

Methods == {"GET", "POST", "PUT", "DELETE"}

Layers ==
    << [method |-> "GET", path |-> "/", handler |-> "getUsers"],
       [method |-> "GET", path |-> "/:userId", handler |-> "getUser"],
       [method |-> "POST", path |-> "/", handler |-> "createUser"],
       [method |-> "PUT", path |-> "/:userId", handler |-> "updateUser"],
       [method |-> "DELETE", path |-> "/:userId", handler |-> "deleteUser"] >>

\* Mutant: "/" matched as a prefix, as router.use would.
Matches_prefix(pattern, path) ==
    IF pattern = "/" THEN TRUE ELSE Len(path) = 1

\* Express path matching of the two patterns the router uses.
Matches(pattern, path) ==
    IF pattern = "/" THEN path = <<>> ELSE Len(path) = 1

\* The handler the router dispatches to: that of its first matching layer,
\* "" when none matches (the router calls next()).
userRoute(method, path) ==
    LET hits == {i \in 1..Len(Layers) :
                    Layers[i].method = method /\ Matches(Layers[i].path, path)}
    IN  IF hits = {} THEN ""
        ELSE Layers[CHOOSE i \in hits : \A j \in hits : i <= j].handler

(* ----------------------------------- app.mjs ---------------------------- *)

HealthPath == <<"api", "v1", "health">>

JsonSyntaxError == Error("SyntaxError", "Unexpected end of JSON input", 400)

NotFound == Response(404, <<>>)

\* A request and where it stands: the handler it was dispatched to, what
\* User.create drew (userId, now) and the wrapper call it awaits.
Request(method, path, body, handler, pc, userId, now, call) ==
    [method |-> method, path |-> path, body |-> body, handler |-> handler,
     pc |-> pc, userId |-> userId, now |-> now, call |-> call]

\* A request that has ended: the error raised while handling it (if any)
\* and the response sent (NoResponse when none was).
Handled(entry, req, error, resp) ==
    [entry |-> entry, req |-> req, error |-> error, resp |-> resp]

AppRequestOf(method, path, handler) ==
    Request(method, path, NoBody, handler, "done", "", "", NoCall)

\* cors, express.json, express.urlencoded, GET /api/v1/health, errorHandler,
\* then Express's own 404.
app(method, path, bodyOk) ==
    IF ~bodyOk
    THEN Handled("app", AppRequestOf(method, path, ""), JsonSyntaxError,
                 errorHandler(JsonSyntaxError))
    ELSE IF method = "GET" /\ path = HealthPath
    THEN Handled("app", AppRequestOf(method, path, "healthCheck"), NoError, healthCheck)
    ELSE Handled("app", AppRequestOf(method, path, ""), NoError, NotFound)

(* --------------------------------- state -------------------------------- *)

VARIABLES
    tables,      \* DynamoDB: table name -> set of items, for the tables that exist
    instance,    \* Dynamodb.#instance: 0 while undefined, else the instance
    ctorCalls,   \* how many times the Dynamodb constructor has run
    db,          \* the exported db: 0 until the module is evaluated
    returned,    \* the instances getInstance has returned so far
    calls,       \* how many times getInstance has been called
    inflight,    \* bag of the requests awaiting bcrypt or DynamoDB
    out,         \* the request that ended last
    created,     \* how many User.create calls have returned
    dbcall,      \* the wrapper operation a direct caller has made last
    sendErr,     \* what the last docClient.send of a direct caller rejected
                 \* with (NoError when it resolved)
    pw,          \* the Password helper's last calls: the password hashed, the
                 \* hashes returned for it, and the last compare
    pager        \* a caller's loop over db.scan: the limit it passes, the items
                 \* it has received, the nextKey of its last page

vars == <<tables, instance, ctorCalls, db, returned, calls, inflight, out,
          created, dbcall, sendErr, pw, pager>>

singleton == <<instance, ctorCalls, db, returned, calls>>

NoRequest == Request("", <<>>, NoBody, "", "", "", "", NoCall)

NoPager == [pc |-> "idle", params |-> <<>>, items |-> <<>>, nextKey |-> Undefined, call |-> NoCall]

NoPassword == [password |-> "", hashes |-> {}, q |-> "", h |-> "", ok |-> "none"]

\* The SocialApp table may or may not have been created in the account.
Init ==
    /\ tables \in {<<>>, [t \in {TableName} |-> {}]}
    /\ instance = 0
    /\ ctorCalls = 0
    /\ db = 0
    /\ returned = {}
    /\ calls = 0
    /\ inflight = EmptyBag
    /\ out = Handled("", NoRequest, NoError, NoResponse)
    /\ created = 0
    /\ dbcall = NoCall
    /\ sendErr = NoError
    /\ pw = NoPassword
    /\ pager = NoPager

\* The SocialApp table's items ({} while the table does not exist).
Table == IF TableName \in DOMAIN tables THEN tables[TableName] ELSE {}

(* ------------------- Dynamodb.getInstance and export db ----------------- *)

\* Mutant: no check of #instance.
getInstance_always(inst, ctor) ==
    [instance |-> ctor + 1, ctorCalls |-> ctor + 1]

\* static getInstance(): constructs when #instance is not set.
getInstance(inst, ctor) ==
    IF inst = 0
    THEN [instance |-> ctor + 1, ctorCalls |-> ctor + 1]
    ELSE [instance |-> inst, ctorCalls |-> ctor]

\* export const db = Dynamodb.getInstance(): the module is evaluated once.
LoadModule ==
    /\ db = 0
    /\ LET r == getInstance(instance, ctorCalls)
       IN  /\ instance' = r.instance
           /\ ctorCalls' = r.ctorCalls
           /\ db' = r.instance
           /\ returned' = returned \cup {r.instance}
    /\ calls' = calls + 1
    /\ UNCHANGED <<tables, inflight, out, created, dbcall, sendErr, pw, pager>>

(* ------------------------------- requests ------------------------------ *)

\* The :userId segments requests carry: a generated id, and the same id
\* written as a partition key (the client sends "USER%23u1").
UserIdParams == {IdPool[1], PKOf(IdPool[1])}

RouterPaths == {<<>>} \cup {<<s>> : s \in UserIdParams}

\* Requests to the app: method, path, and whether the body parses.
AppInputs ==
    {<<"GET", HealthPath, TRUE>>, <<"GET", HealthPath, FALSE>>,
     <<"POST", HealthPath, TRUE>>, <<"GET", <<>>, TRUE>>, <<"GET", <<IdPool[1]>>, TRUE>>,
     <<"POST", <<>>, TRUE>>, <<"POST", <<>>, FALSE>>}

Add(bag, r) == bag (+) SetToBag({r})

Remove(bag, r) == bag (-) SetToBag({r})

\* next(error) reaches errorHandler; res.json sends the response itself.
Finish(outcome) ==
    IF outcome.kind = "next" THEN errorHandler(outcome.error) ELSE outcome.resp

Controller(handler, call) ==
    CASE handler = "getUser" -> getUser(call)
      [] handler = "getUsers" -> getUsers(call)
      [] handler = "createUser" -> createUser(call)

\* docClient.send settles: the document client could not marshall the
\* command, or the service has processed it, or the send failed without
\* reaching the service.
Send(cmd, fail) ==
    IF ~Marshallable(cmd) THEN Reply(tables, UndefinedValue, <<>>)
    ELSE IF fail THEN Reply(tables, ServiceUnavailable, <<>>)
    ELSE DynamoDB(tables, cmd)

\* The request r has ended after its wrapper call settled as `call`.
Ended(r, call) ==
    LET outcome == Controller(r.handler, call)
    IN  Handled("router", [r EXCEPT !.pc = "done", !.call = call],
                outcome.error, Finish(outcome))

\* A request to the app: none of its middleware awaits.
AppRequest(method, path, bodyOk) ==
    /\ db # 0
    /\ out' = app(method, path, bodyOk)
    /\ UNCHANGED <<tables, singleton, inflight, created, dbcall, sendErr, pw, pager>>

\* getUser and getUsers: one read of the table, at the moment the service
\* processes the command, and the response built from it.  Nothing else of
\* the request is visible to other requests, so it is one step.
ReadRequest(r) ==
    \E fail \in BOOLEAN :
       LET reply == Send(r.call.cmds[1], fail)
       IN  /\ out' = Ended(r, Dynamodb_settle(r.call, reply))
           /\ tables' = reply.tables

\* A request to userRoute.  The validators of a route record what they find
\* and call next(); updateUser and deleteUser return without a response
\* and without next(), so the request stays open and nothing acts on it.
RouterRequest(method, path, body) ==
    /\ db # 0
    /\ LET handler == userRoute(method, path)
           req(pc, call) == Request(method, path, body, handler, pc, "", "", call)
       IN  CASE handler = "" ->
                  /\ out' = Handled("router", req("done", NoCall), NoError, NotFound)
                  /\ UNCHANGED <<tables, inflight>>
             [] handler = "getUsers" ->
                  /\ ReadRequest(req("db", User_getUsers(<<>>)))
                  /\ UNCHANGED inflight
             [] handler = "getUser" ->
                  /\ ReadRequest(req("db", User_getUser(path[1])))
                  /\ UNCHANGED inflight
             [] handler = "createUser" ->
                  /\ BagCardinality(inflight) < MaxReqs
                  /\ inflight' = Add(inflight, req("hash", NoCall))
                  /\ UNCHANGED <<tables, out>>
             [] handler \in {"updateUser", "deleteUser"} ->
                  /\ out' = Handled("router", req("open", NoCall), NoError, NoResponse)
                  /\ UNCHANGED <<tables, inflight>>
    /\ UNCHANGED <<singleton, created, dbcall, sendErr, pw, pager>>

\* Mutant: params kept in a variable of the module, which every request in
\* flight assigns: the body read after the await may be another request's.
HashDone_shared(r) ==
    /\ r.pc = "hash"
    /\ inflight' = Remove(inflight, r)
    /\ \E salt \in Salts, userId \in Ids, now \in Times, fail \in BOOLEAN,
          params \in {other.body : other \in BagToSet(inflight)} :
          LET h == Password_hash(Field(params, "password"), salt)
          IN  IF h = <<>>
              THEN /\ out' = Ended(r, [NoCall EXCEPT !.pc = "thrown", !.err = IllegalArguments])
                   /\ UNCHANGED <<tables, created>>
              ELSE LET sent == User_create(params, userId, now, h[1])
                       reply == Send(sent.cmds[1], fail)
                       call == Dynamodb_settle(sent, reply)
                   IN  /\ tables' = reply.tables
                       /\ out' = Ended([r EXCEPT !.userId = userId, !.now = now], call)
                       /\ created' = IF call.pc = "returned" THEN created + 1 ELSE created
    /\ UNCHANGED <<singleton, dbcall, sendErr, pw, pager>>

\* User.create resumes after await Password.hash(password): when the hash
\* resolved it builds the Item and awaits db.create, and createUser answers
\* with what that returns or throws.  userId = v4() and now = new Date()
\* were evaluated before the first await and nothing reads them before the
\* Item is built: their values are drawn here.  The put acts on the table
\* at the moment the service processes it and nothing else of the second
\* await is visible to other requests, so both resumptions are one step.
HashDone(r) ==
    /\ r.pc = "hash"
    /\ inflight' = Remove(inflight, r)
    /\ \E salt \in Salts, userId \in Ids, now \in Times, fail \in BOOLEAN :
          LET h == Password_hash(Field(r.body, "password"), salt)
          IN  IF h = <<>>
              THEN /\ out' = Ended(r, [NoCall EXCEPT !.pc = "thrown", !.err = IllegalArguments])
                   /\ UNCHANGED <<tables, created>>
              ELSE LET sent == User_create(r.body, userId, now, h[1])
                       reply == Send(sent.cmds[1], fail)
                       call == Dynamodb_settle(sent, reply)
                   IN  /\ tables' = reply.tables
                       /\ out' = Ended([r EXCEPT !.userId = userId, !.now = now], call)
                       /\ created' = IF call.pc = "returned" THEN created + 1 ELSE created
    /\ UNCHANGED <<singleton, dbcall, sendErr, pw, pager>>

Next ==
    \/ LoadModule
    \/ \E in \in AppInputs : AppRequest(in[1], in[2], in[3])
    \/ \E method \in Methods, path \in RouterPaths :
          \E body \in (IF method = "POST" /\ path = <<>> THEN Bodies ELSE {NoBody}) :
             RouterRequest(method, path, body)
    \/ \E r \in BagToSet(inflight) : HashDone(r)

Spec == Init /\ [][Next]_vars

(* ------------------------ creates, one at a time ------------------------ *)
(* POST / requests to userRoute with complete and incomplete bodies, each  *)
(* sent after the one before it has ended.                                 *)

NextCreate ==
    \/ LoadModule
    \/ \E body \in {CompleteBody} \cup IncompleteBodies :
          /\ inflight = EmptyBag
          /\ RouterRequest("POST", <<>>, body)
    \/ \E r \in BagToSet(inflight) : HashDone(r)

SpecCreate == Init /\ [][NextCreate]_vars

(* ------------------- direct callers of the wrapper ---------------------- *)
(* The wrapper's six operations, called with the parameter objects a       *)
(* caller may pass, one call at a time.                                    *)

\* getInstance calls made (the export of db included).
MaxCalls == 3

\* Any further Dynamodb.getInstance() call.
GetInstance ==
    /\ db # 0
    /\ calls < MaxCalls
    /\ LET r == getInstance(instance, ctorCalls)
       IN  /\ instance' = r.instance
           /\ ctorCalls' = r.ctorCalls
           /\ returned' = returned \cup {r.instance}
    /\ calls' = calls + 1
    /\ UNCHANGED <<tables, db, inflight, out, created, dbcall, sendErr, pw, pager>>

DbItem(id) ==
    Item([name |-> "alice", email |-> "a@x.io", mobile |-> "5550100"], id,
         "2025-01-01T00:00:00.000Z", Bcrypt("pw1", "s1"))

\* A second item of the partition of a user: the sort key tells the items
\* of a partition apart.
DbPost(id) == [PK |-> PKOf(id), SK |-> "POST#p1", entityType |-> "POST", userId |-> id]

\* A parameter object as it is, and with a TableName of the caller's.
WithTable(params) == {params, Spread(params, [TableName |-> "User"])}

DbParams(op) ==
    CASE op = "create" ->
           UNION {WithTable([Item |-> DbItem(id)])
                    \cup {[Item |-> DbItem(id), ConditionExpression |-> "attribute_not_exists(PK)"]}
                  : id \in Ids}
           \cup {[Item |-> DbPost(IdPool[1])]}
      [] op \in {"get", "delete"} ->
           UNION {WithTable([Key |-> KeyOf(DbItem(id))]) : id \in Ids}
           \cup {[Key |-> KeyOf(DbItem(IdPool[1])), TableName |-> Undefined]}
      [] op = "update" ->
           UNION {WithTable([Key |-> KeyOf(DbItem(id)),
                             UpdateExpression |-> "SET active = :a",
                             ExpressionAttributeValues |-> (":a" :> FALSE)]) : id \in Ids}
      [] op = "query" ->
           {<<>>} \cup {[ExpressionAttributeValues |-> (":pk" :> PKOf(id))] : id \in Ids}
           \cup {[KeyConditionExpression |-> kce,
                  ExpressionAttributeValues |-> (":pk" :> PKOf(IdPool[1]))]
                 : kce \in {"PK = :pk", "", Undefined}}
      [] op = "scan" ->
           {<<>>, [limit |-> 1], [limit |-> 1, startKey |-> KeyOf(DbItem(IdPool[1]))]}

\* The params of a query whose values the caller left undefined.
NoValues == [ExpressionAttributeValues |-> Undefined]

\* db.<op>(params), up to its await.
DbCall(op, params) ==
    /\ db # 0
    /\ dbcall.pc # "await"
    /\ dbcall' = Dynamodb_call(op, params)
    /\ UNCHANGED <<tables, singleton, inflight, out, created, sendErr, pw, pager>>

\* docClient.send settles and the operation resumes.
DbSettle ==
    /\ dbcall.pc = "await"
    /\ \E fail \in BOOLEAN :
          LET reply == Send(dbcall.cmds[Len(dbcall.cmds)], fail)
          IN  /\ tables' = reply.tables
              /\ sendErr' = reply.err
              /\ dbcall' = Dynamodb_settle(dbcall, reply)
    /\ UNCHANGED <<singleton, inflight, out, created, pw, pager>>

NextDb ==
    \/ LoadModule
    \/ GetInstance
    \/ \E op \in Ops : \E params \in DbParams(op) : DbCall(op, params)
    \/ DbCall("query", NoValues)
    \/ DbSettle

SpecDb == Init /\ [][NextDb]_vars

(* ------------------------- db.mjs: the setup script --------------------- *)
(* createTable run in an account, before or after requests create users.   *)

ResourceInUse == Error("ResourceInUseException", "Table already exists", 0)

\* The service's CreateTable: a new, empty table under the name asked for.
CreateTable(tbls, input) ==
    IF input.TableName \in DOMAIN tbls THEN Reply(tbls, ResourceInUse, <<>>)
    ELSE Reply([t \in DOMAIN tbls \cup {input.TableName} |->
                   IF t \in DOMAIN tbls THEN tbls[t] ELSE {}],
               NoError, <<>>)

\* const params of db.mjs.
createTableParams == [TableName |-> "User", KeySchema |-> <<"PK", "SK">>]

\* createTable(): the command sent with docClient, every error logged and
\* dropped.
createTable ==
    /\ \E fail \in BOOLEAN :
          LET reply == IF fail THEN Reply(tables, ServiceUnavailable, <<>>)
                       ELSE CreateTable(tables, createTableParams)
          IN  tables' = reply.tables
    /\ UNCHANGED <<singleton, inflight, out, created, dbcall, sendErr, pw, pager>>

NextSetup ==
    \/ LoadModule
    \/ createTable
    \/ \E body \in Bodies :
          /\ inflight = EmptyBag
          /\ RouterRequest("POST", <<>>, body)
    \/ \E r \in BagToSet(inflight) : HashDone(r)

SpecSetup == Init /\ [][NextSetup]_vars

(* ------------------------------ listing users -------------------------- *)
(* A table that holds users already, read page by page with db.scan and    *)
(* through GET / of userRoute.  Nothing writes to the table meanwhile.     *)

\* The users a table of n users holds.
Users(n) == {DbItem(IdPool[i]) : i \in 1..n}

\* How many users the table holds: none, a few, and one more than a scan
\* without a limit asks for.
TableSizes == {0, 1, 3, ScanLimit + 1}

InitScan ==
    /\ tables \in {[t \in {TableName} |-> Users(n)] : n \in TableSizes}
    /\ instance = 0
    /\ ctorCalls = 0
    /\ db = 0
    /\ returned = {}
    /\ calls = 0
    /\ inflight = EmptyBag
    /\ out = Handled("", NoRequest, NoError, NoResponse)
    /\ created = Cardinality(Table)
    /\ dbcall = NoCall
    /\ sendErr = NoError
    /\ pw = NoPassword
    /\ pager = NoPager

\* The params a caller's loop passes besides the start key.
PageParams == {<<>>, [limit |-> 1], [limit |-> 2]}

\* One turn of the loop: await db.scan(params), the items received
\* appended to those the loop holds, nextKey kept for the next turn.
Page(params, items) ==
    \E fail \in BOOLEAN :
       LET sent == Dynamodb_call("scan", params)
           reply == Send(sent.cmds[1], fail)
           call == Dynamodb_settle(sent, reply)
       IN  /\ tables' = reply.tables
           /\ pager' =
                 IF call.pc = "thrown"
                 THEN [pc |-> "failed", params |-> params, items |-> items,
                       nextKey |-> Undefined, call |-> call]
                 ELSE [pc |-> IF IsUndefined(call.value[1].nextKey) THEN "done" ELSE "more",
                       params |-> params,
                       items |-> items \o call.value[1].items,
                       nextKey |-> call.value[1].nextKey,
                       call |-> call]

\* The loop starts: db.scan(params) without a start key.
ScanFirst(params) ==
    /\ db # 0
    /\ pager.pc # "more"
    /\ Page(params, <<>>)
    /\ UNCHANGED <<singleton, inflight, out, created, dbcall, sendErr, pw>>

\* The loop goes on: db.scan({...params, startKey: nextKey}).
ScanNext ==
    /\ pager.pc = "more"
    /\ Page(Spread([k \in DOMAIN pager.params \ {"startKey"} |-> pager.params[k]],
                   [startKey |-> pager.nextKey]),
            pager.items)
    /\ UNCHANGED <<singleton, inflight, out, created, dbcall, sendErr, pw>>

NextScan ==
    \/ LoadModule
    \/ \E params \in PageParams : ScanFirst(params)
    \/ ScanNext
    \/ RouterRequest("GET", <<>>, NoBody)

SpecScan == InitScan /\ [][NextScan]_vars

(* ------------------------ callers of the Password helper ---------------- *)
(* Password.hash and Password.compare called with passwords of a caller.   *)

RECURSIVE Repeat(_, _)
Repeat(c, n) == IF n = 0 THEN "" ELSE c \o Repeat(c, n - 1)

\* A passphrase of as many bytes as bcrypt keeps.
Passphrase == Repeat("a", BcryptMaxBytes)

\* Short passwords, the empty one, and passphrases longer than bcrypt keeps.
Passwords == {"pw1", "pw2", "", Passphrase, Passphrase \o "b", Passphrase \o "c"}

\* The salts bcrypt.genSalt(12) returns to these callers.
SaltPool == {"s1", "s2", "s3"}

\* await Password.hash(password), with the salt genSalt drew.
HashPassword(password, salt) ==
    /\ LET h == Password_hash(password, salt)
       IN  pw' = [password |-> password,
                  hashes |-> (IF password = pw.password THEN pw.hashes ELSE {}) \cup {h[1]},
                  q |-> "", h |-> "", ok |-> "none"]
    /\ UNCHANGED <<tables, singleton, inflight, out, created, dbcall, sendErr, pager>>

\* await Password.compare(q, h), for a hash Password.hash has returned.
ComparePassword(q, h) ==
    /\ h \in pw.hashes
    /\ pw' = [pw EXCEPT !.q = q, !.h = h,
                        !.ok = IF Password_compare(q, h) THEN "true" ELSE "false"]
    /\ UNCHANGED <<tables, singleton, inflight, out, created, dbcall, sendErr, pager>>

NextPw ==
    \/ \E password \in Passwords, salt \in SaltPool : HashPassword(password, salt)
    \/ \E q \in Passwords, h \in pw.hashes : ComparePassword(q, h)

SpecPw == Init /\ [][NextPw]_vars

(* --------------------------------- claims ------------------------------- *)

\* C1: every request whose handling failed (the handler threw, or the
\* DynamoDB call rejected) has been answered with HTTP 500 and the body
\* {error: {message}} carrying the raw message of the error; no failure has
\* another status and none is left without a response.
C1_FailureAnswered500 ==
    out.error # NoError =>
        out.resp = Response(500, [error |-> [message |-> out.error.message]])

\* A create whose put DynamoDB rejected, answered with 500.
C1_Witness ==
    /\ out.req.handler = "createUser"
    /\ out.error = ServiceUnavailable
    /\ out.resp.status = 500

\* C2: once a user with generated id u is stored, User.getUser(u) returns
\* that user's item.
C2_CreateGetRoundTrip ==
    \A i \in Table :
        (/\ out.req.handler = "getUser"
         /\ out.req.call.pc = "returned"
         /\ out.req.path = <<i.userId>>)
        => out.req.call.value = <<i>>

\* C3: every item of the table has PK = "USER#" + id and SK = "PROFILE#" + id
\* for one id, the item's userId.
C3_KeyPattern ==
    \A i \in Table : i.PK = "USER#" \o i.userId /\ i.SK = "PROFILE#" \o i.userId

\* Two users are stored.
C3_Witness == Cardinality(Table) = 2

\* C4 as claimed: no create is ever rejected by attribute_not_exists(PK).
C4_ConditionNeverFails ==
    out.error # ConditionalCheckFailed

\* C4 as amended: a create is rejected by attribute_not_exists(PK) only when
\* the id v4() returned is that of an item already stored.
C4_FailsOnlyOnCollision ==
    out.error = ConditionalCheckFailed =>
        /\ out.req.handler = "createUser"
        /\ \E i \in Table : i.userId = out.req.userId

\* A create rejected by the condition.
C4_Witness ==
    /\ out.req.handler = "createUser"
    /\ out.error = ConditionalCheckFailed

\* C5: User.create never overwrites: each id identifies at most one item,
\* the table holds as many items as creates have returned, a put whose key
\* exists is rejected by the condition with the error propagated, and a step
\* in which no create returns leaves the table as it was.
C5_NoOverwrite ==
    /\ [](/\ \A i, j \in Table : i.userId = j.userId => i = j
          /\ Cardinality(Table) = created
          /\ (out.req.handler = "createUser" /\ out.req.call.err = ConditionalCheckFailed)
                => /\ out.error = ConditionalCheckFailed
                   /\ out.resp = errorHandler(ConditionalCheckFailed)
                   /\ \E i \in Table : KeyOf(i) = KeyOf(out.req.call.params.Item))
    /\ [][created' = created => tables' = tables]_vars

\* A create rejected because its key exists, beside a stored user.
C5_Witness ==
    /\ out.req.handler = "createUser"
    /\ out.req.call.err = ConditionalCheckFailed
    /\ created = 1

\* C6: no request changes or removes a stored item; the only change a
\* request makes to the tables is the insertion of one new item by a create.
C6_StoredUsersImmutable ==
    [][\/ tables' = tables
       \/ /\ DOMAIN tables' = DOMAIN tables
          /\ out'.req.handler = "createUser"
          /\ \E i \in Table' \ Table :
                /\ Table' = Table \cup {i}
                /\ \A j \in Table : KeyOf(j) # KeyOf(i)]_vars

\* A PUT /:userId has been handled while two users are stored.
C6_Witness ==
    /\ Cardinality(Table) = 2
    /\ out.req.handler = "updateUser"

\* C7: the constructor runs at the first getInstance call and never again,
\* and every getInstance call returns the one instance exported as db.
C7_Singleton ==
    /\ ctorCalls = (IF calls = 0 THEN 0 ELSE 1)
    /\ calls > 0 => /\ db # 0
                    /\ instance = db
                    /\ returned = {db}

\* getInstance has been called again after the export.
C7_Witness == calls >= 2 /\ returned = {db}

\* C8: each call of a wrapper operation sends exactly one command, and when
\* the send rejects, the operation throws that same error.
C8_OneCommandPerCall ==
    dbcall.pc # "" =>
        /\ Len(dbcall.cmds) = 1
        /\ dbcall.cmds[1] = CommandOf(dbcall.op, dbcall.params)
        /\ dbcall.pc = "thrown" => sendErr # NoError /\ dbcall.err = sendErr
        /\ dbcall.pc = "returned" => sendErr = NoError /\ dbcall.err = NoError

\* An update whose send was rejected.
C8_Witness ==
    /\ dbcall.op = "update"
    /\ dbcall.pc = "thrown"
    /\ sendErr = ServiceUnavailable

\* C9: the command of create, update, delete and get carries every key of
\* the caller's params unchanged, and its TableName is the caller's when the
\* params hold one and "SocialApp" otherwise.
C9_DefaultMerge ==
    dbcall.op \in {"create", "update", "delete", "get"} =>
        LET input == dbcall.cmds[1].input
            params == dbcall.params
        IN  /\ DOMAIN input = DOMAIN params \cup {"TableName"}
            /\ \A k \in DOMAIN params : ToString(input[k]) = ToString(params[k])
            /\ input.TableName =
                  (IF "TableName" \in DOMAIN params THEN params.TableName ELSE "SocialApp")

\* A delete called with a TableName of the caller's.
C9_Witness ==
    /\ dbcall.op = "delete"
    /\ "TableName" \in DOMAIN dbcall.params
    /\ dbcall.cmds[1].input.TableName = "User"

\* The handler of the user resource for each method.
HandlerOf(method) ==
    CASE method = "GET" -> "getUser"
      [] method = "POST" -> "createUser"
      [] method = "PUT" -> "updateUser"
      [] method = "DELETE" -> "deleteUser"

\* C10 as claimed: GET, POST, PUT and DELETE on /:userId are dispatched to
\* the get, create, update and delete handlers.
C10_AllFourOnUserId ==
    (out.entry = "router" /\ Len(out.req.path) = 1)
        => out.req.handler = HandlerOf(out.req.method)

\* C10 as amended: GET, PUT and DELETE on /:userId are dispatched to the
\* get, update and delete handlers; POST is dispatched to the create handler
\* on / and to no handler on /:userId.
C10_Routes ==
    out.entry = "router" =>
        /\ (Len(out.req.path) = 1 /\ out.req.method \in {"GET", "PUT", "DELETE"})
              => out.req.handler = HandlerOf(out.req.method)
        /\ (Len(out.req.path) = 1 /\ out.req.method = "POST") => out.req.handler = ""
        /\ (out.req.path = <<>> /\ out.req.method = "POST") => out.req.handler = "createUser"

\* A DELETE /:userId dispatched to deleteUser.
C10_Witness ==
    /\ out.entry = "router"
    /\ out.req.method = "DELETE"
    /\ Len(out.req.path) = 1
    /\ out.req.handler = "deleteUser"

\* C11: a request sent to the app for a route of the user router (with a
\* body that parses) is dispatched to the handler the user router has for
\* it, and is not answered by the framework's not-found handling.
C11_AppReachesUserRoute ==
    (/\ out.entry = "app"
     /\ out.error = NoError
     /\ userRoute(out.req.method, out.req.path) # "")
    => /\ out.req.handler = userRoute(out.req.method, out.req.path)
       /\ out.resp # NotFound

\* C12: a GET /api/v1/health (one whose body, if it has any, parses) is
\* answered 200 with message "Server is healthy" and version "1.0.0" in
\* every reachable state, whether the table exists, whatever it holds and
\* whatever earlier requests did; serving it sends no command to DynamoDB
\* and leaves the tables as they were.
C12_HealthAlways200 ==
    /\ []((/\ out.entry = "app"
           /\ out.req.method = "GET"
           /\ out.req.path = HealthPath
           /\ out.error = NoError)
          => /\ out.resp.status = 200
             /\ out.resp.body.message = "Server is healthy"
             /\ out.resp.body.version = "1.0.0"
             /\ out.req.call = NoCall)
    /\ [][(\E bodyOk \in BOOLEAN : AppRequest("GET", HealthPath, bodyOk))
             => /\ tables' = tables
                /\ dbcall' = dbcall
                /\ out'.req.call.cmds = <<>>]_vars

\* The health check answered 200 while the table does not exist and a
\* create is in flight.
C12_Witness ==
    /\ out.req.handler = "healthCheck"
    /\ out.resp.status = 200
    /\ TableName \notin DOMAIN tables
    /\ inflight # EmptyBag

\* A body lacks a field: it is absent, undefined or the empty string.
Lacks(body, k) == Falsy(Field(body, k))

\* C13: a create request whose body lacks name, email, password or mobile
\* is rejected before the controller acts: User.create is not called for it
\* (nothing is hashed, no command is sent) and no item is written for it.
C13_PresenceChecked ==
    /\ (/\ out.req.handler = "createUser"
        /\ \E k \in Required : Lacks(out.req.body, k))
       => out.req.call = NoCall
    /\ \A i \in Table : \A k \in Required : ~Falsy(i[k])

\* C14: a create whose email or mobile equals that of a stored user is not
\* refused for it: when its put reaches the service with an id no stored
\* item has, the create is answered 200 and the table then holds the stored
\* items and the new one, with the same email or mobile.
C14_NoUniqueness ==
    [][(/\ BagCardinality(inflight') < BagCardinality(inflight)
        /\ out'.req.call.op = "create"
        /\ out'.req.call.err \notin {ServiceUnavailable, ResourceNotFound}
        /\ \A i \in Table : i.userId # out'.req.userId
        /\ \E i \in Table : \/ i.email = out'.req.body.email
                            \/ i.mobile = out'.req.body.mobile)
       => /\ out'.resp.status = 200
          /\ out'.req.call.params.Item \notin Table
          /\ Table' = Table \cup {out'.req.call.params.Item}
          /\ out'.req.call.params.Item.email = out'.req.body.email
          /\ out'.req.call.params.Item.mobile = out'.req.body.mobile]_vars

\* Two stored users with the same email and the same mobile, the second
\* create answered 200.
C14_Witness ==
    /\ out.req.handler = "createUser"
    /\ out.resp.status = 200
    /\ \E i, j \in Table : /\ i.userId # j.userId
                           /\ i.email = j.email
                           /\ i.mobile = j.mobile
                           /\ j = out.req.call.params.Item

\* The passwords clients submit.
Plaintexts == {Field(b, "password") : b \in Bodies \cup {CompleteBody} \cup IncompleteBodies}

\* C15: the plaintext password is never stored.  The password of every
\* stored item is a bcrypt hash and no submitted plaintext; the item of
\* every put a create issued carries the hash of the password of its own
\* body, not that password; and a create whose hashing failed has issued no
\* put and left the tables as they were.
C15_PlaintextNeverStored ==
    /\ [](/\ \A i \in Table :
                /\ i.password \notin Plaintexts
                /\ \E p \in Plaintexts \ {Undefined}, salt \in Salts : i.password = Bcrypt(p, salt)
          /\ (out.req.handler = "createUser" /\ out.req.call.op = "create")
                => LET stored == out.req.call.params.Item.password
                   IN  /\ out.req.body.password # Undefined
                       /\ stored # out.req.body.password
                       /\ \E salt \in Salts : stored = Bcrypt(out.req.body.password, salt)
          /\ (out.req.handler = "createUser" /\ out.error = IllegalArguments)
                => out.req.call.cmds = <<>>)
    /\ [][(/\ BagCardinality(inflight') < BagCardinality(inflight)
           /\ out'.error = IllegalArguments)
          => tables' = tables]_vars

\* A create whose hashing failed has been answered while a user created
\* with password "pw1" is stored.
C15_Witness ==
    /\ out.req.handler = "createUser"
    /\ out.error = IllegalArguments
    /\ \E i \in Table : i.password = Bcrypt("pw1", "s1")

\* C16: for every password p and every hash h Password.hash(p) returned,
\* Password.compare(p, h) is true and Password.compare(q, h) is false for
\* every q different from p; the hashes of p under different salts all
\* compare true with p.
C16_HashCompareRoundTrip ==
    /\ \A h \in pw.hashes : Password_compare(pw.password, h)
    /\ pw.ok # "none" => (pw.ok = "true" <=> pw.q = pw.password)

\* C17: creates in flight together do not interfere.  When a create ends
\* with 200 it has added exactly one item, the one built from its own body,
\* its own generated id and its own time, carrying the hash of its own
\* password; when it ends otherwise it has changed nothing; in both cases
\* the other requests in flight are as they were; and the table always
\* holds one item per create that has returned.
C17_CreatesIndependent ==
    /\ [](Cardinality(Table) = created)
    /\ [][BagCardinality(inflight') < BagCardinality(inflight)
          => /\ out'.req.handler = "createUser"
             /\ inflight = Add(inflight', [out'.req EXCEPT !.pc = "hash", !.userId = "",
                                                           !.now = "", !.call = NoCall])
             /\ created' = created + (IF out'.resp.status = 200 THEN 1 ELSE 0)
             /\ IF out'.resp.status = 200
                THEN \E salt \in Salts :
                        LET own == Item(out'.req.body, out'.req.userId, out'.req.now,
                                        Bcrypt(out'.req.body.password, salt))
                        IN  /\ own \notin Table
                            /\ Table' = Table \cup {own}
                            /\ out'.req.call.params.Item = own
                ELSE tables' = tables]_vars

\* A create has been answered 200 and its item is stored beside another
\* user's, while a create with another body awaits its hash.
C17_Witness ==
    /\ out.req.handler = "createUser"
    /\ out.resp.status = 200
    /\ out.req.call.params.Item \in Table
    /\ Cardinality(Table) = 2
    /\ \E r \in BagToSet(inflight) : r.body # out.req.body

\* The items of the table a returned query matched.
Matching(call) ==
    {i \in Table : i.PK = call.cmds[1].input.ExpressionAttributeValues[":pk"]}

\* C18: db.query returns the result of the query: for a key condition that
\* matches n items the caller receives a result whose Items are all n of
\* them (the empty list when n = 0) and whose Count is n.
C18_QueryReturnsResult ==
    (dbcall.op = "query" /\ dbcall.pc = "returned")
    => /\ Len(dbcall.value) = 1
       /\ dbcall.value[1] = [Items |-> InOrder(Matching(dbcall)),
                             Count |-> Cardinality(Matching(dbcall))]

\* The caller supplies a value under k: the params hold k with a value that
\* is neither undefined nor empty.
Supplied(params, k) == k \in DOMAIN params /\ ~Falsy(params[k])

\* C19: the QueryCommand of db.query carries as KeyConditionExpression the
\* caller's value when one is supplied and "PK = :pk" otherwise, and as
\* ExpressionAttributeValues the caller's value when supplied and
\* {":pk": ""} otherwise; for no params is either of the two empty or
\* undefined in the command.
C19_QueryKeyCondition ==
    dbcall.op = "query" =>
        LET input == dbcall.cmds[1].input
            params == dbcall.params
            kce == IF Supplied(params, "KeyConditionExpression")
                   THEN params.KeyConditionExpression ELSE "PK = :pk"
            eav == IF Supplied(params, "ExpressionAttributeValues")
                   THEN params.ExpressionAttributeValues ELSE (":pk" :> "")
        IN  /\ ToString(input.KeyConditionExpression) = ToString(kce)
            /\ ToString(input.ExpressionAttributeValues) = ToString(eav)
            /\ ~Falsy(input.KeyConditionExpression)
            /\ ~Falsy(input.ExpressionAttributeValues)

\* C20: a get-user request whose id is the partition key of no item is
\* answered 500 by errorHandler, never 200: when the query returns, it
\* returns no item, the controller fails with a TypeError on it and the
\* error goes to next; the tables are left as they were.
C20_GetMissingUser500 ==
    [][(/\ out' # out
        /\ out'.req.handler = "getUser"
        /\ \A i \in Table : i.PK # out'.req.path[1])
       => /\ out'.error # NoError
          /\ out'.resp = errorHandler(out'.error)
          /\ out'.resp.status = 500
          /\ out'.req.call.pc = "returned"
                => out'.req.call.value = <<>> /\ out'.error = TypeError
          /\ tables' = tables]_vars

\* A get-user request on the empty table, answered 500 for the TypeError.
C20_Witness ==
    /\ out.req.handler = "getUser"
    /\ out.error = TypeError
    /\ out.resp.status = 500
    /\ TableName \in DOMAIN tables
    /\ Table = {}

\* C21: every get-user request answered 200 carries in data the item the
\* query read with its password replaced by "****", never the stored hash,
\* and the request leaves the tables, the password of that item included,
\* as they were.
C21_PasswordMasked ==
    /\ []((out.req.handler = "getUser" /\ out.resp.status = 200)
          => out.resp.body.data.password = "****")
    /\ [][(/\ out' # out
           /\ out'.req.handler = "getUser"
           /\ out'.resp.status = 200)
          => /\ tables' = tables
             /\ \E i \in Table :
                   /\ i.PK = out'.req.path[1]
                   /\ i.password # "****"
                   /\ out'.resp.body.data = [i EXCEPT !.password = "****"]
                   /\ i \in Table']_vars

\* A get-user request answered 200 while the user it read is stored with
\* its hash.
C21_Witness ==
    /\ out.req.handler = "getUser"
    /\ out.resp.status = 200
    /\ \E i \in Table : /\ i.PK = out.req.path[1]
                        /\ i.password = Bcrypt("pw1", "s1")

\* C22: no response of GET / discloses a stored password hash: every item
\* in data.items has its password masked or has none.
C22_ListHidesHashes ==
    (out.req.handler = "getUsers" /\ out.resp.status = 200)
    => \A k \in 1..Len(out.resp.body.data.items) :
          LET item == out.resp.body.data.items[k]
          IN  "password" \in DOMAIN item => item.password = "****"

\* The three controllers that await the model.
Awaiting == {"getUser", "getUsers", "createUser"}

\* What the controller of the request that ended last did.
Outcome == Controller(out.req.handler, out.req.call)

\* C23: every request handled by getUser, getUsers or createUser ends with
\* exactly one of two outcomes: the 200 envelope {data, message, success:
\* true} is sent and no error is forwarded, or the error is forwarded with
\* next(error) and the controller has sent nothing; and it ends once: the
\* step that ends a create takes exactly that request out of those in
\* flight.
C23_ExactlyOneOutcome ==
    /\ [](out.req.handler \in Awaiting
          => /\ out.req.pc = "done"
             /\ Outcome.kind \in {"json", "next"}
             /\ Outcome.kind = "json"
                   => /\ Outcome.error = NoError /\ out.error = NoError
                      /\ out.resp = Outcome.resp
                      /\ out.resp.status = 200
                      /\ DOMAIN out.resp.body = {"data", "message", "success"}
                      /\ out.resp.body.success = TRUE
             /\ Outcome.kind = "next"
                   => /\ Outcome.error # NoError /\ out.error = Outcome.error
                      /\ Outcome.resp = NoResponse
                      /\ out.resp = errorHandler(out.error))
    /\ [][BagCardinality(inflight') < BagCardinality(inflight)
          => /\ BagCardinality(inflight') = BagCardinality(inflight) - 1
             /\ out'.req.handler = "createUser"
             /\ out'.req.pc = "done"]_vars

\* A list request whose scan was rejected: the error forwarded, nothing
\* sent by the controller.
C23_Witness ==
    /\ out.req.handler = "getUsers"
    /\ Outcome.kind = "next"
    /\ out.error = ResourceNotFound

\* C24: every request routed to a user handler completes: once its handler
\* has returned and nothing is awaited for it any more, the request has
\* received a response (the controller's, or errorHandler's for the error
\* passed to next).
C24_EveryRequestCompletes ==
    (/\ out.entry = "router"
     /\ out.req.handler \in {"getUser", "getUsers", "createUser", "updateUser", "deleteUser"})
    => /\ out.req.pc = "done"
       /\ out.resp # NoResponse

\* The items a loop over db.scan has received, as a set.
Received == {pager.items[k] : k \in 1..Len(pager.items)}

\* C25: each db.scan of a loop sends a ScanCommand with Limit the caller's
\* limit (20 when it passes none) and ExclusiveStartKey the caller's
\* startKey, and returns {items, nextKey}: at most Limit items, those the
\* service read after the start key, and nextKey the LastEvaluatedKey of
\* the service.  On an unchanging table, a loop that passes each nextKey as
\* the next startKey until nextKey is undefined has received every item of
\* the table exactly once.
C25_ScanPagination ==
    /\ pager.pc # "idle"
          => LET input == pager.call.cmds[1].input
                 read == ScanItems(tables, input).output
             IN  /\ input.Limit = (IF Has(pager.call.params, "limit")
                                   THEN pager.call.params.limit ELSE 20)
                 /\ ToString(input.ExclusiveStartKey)
                       = ToString(Field(pager.call.params, "startKey"))
                 /\ pager.call.pc = "returned"
                       => LET page == pager.call.value[1]
                          IN  /\ DOMAIN page = {"items", "nextKey"}
                              /\ Len(page.items) <= input.Limit
                              /\ page.items = read.Items
                              /\ ToString(page.nextKey) = ToString(read.LastEvaluatedKey)
    /\ pager.pc = "done"
          => /\ Received = Table
             /\ Len(pager.items) = Cardinality(Table)

\* A loop with limit 2 has ended after reading the 21 users of the table.
C25_Witness ==
    /\ pager.pc = "done"
    /\ Has(pager.params, "limit")
    /\ pager.params.limit = 2
    /\ Len(pager.items) = 21

\* C26: GET / returns every stored user.  The endpoint reads nothing of the
\* request (no limit, no start key), so what a client can obtain from it is
\* what one response carries: on an unchanging table, data.items of every
\* list response answered 200 holds all items of the table.
C26_ListReturnsAll ==
    (out.req.handler = "getUsers" /\ out.resp.status = 200)
    => {out.resp.body.data.items[k] : k \in 1..Len(out.resp.body.data.items)} = Table

\* C27: the table createTable creates is the table the wrapper uses: in an
\* account whose only table is the one createTable has created, a put that
\* User.create sends through db names an existing table and is not
\* rejected for a missing one.
C27_SetupTableIsUsed ==
    [][(/\ DOMAIN tables = {createTableParams.TableName}
        /\ BagCardinality(inflight') < BagCardinality(inflight)
        /\ out'.req.call.op = "create")
       => /\ out'.req.call.cmds[1].input.TableName \in DOMAIN tables
          /\ out'.error # ResourceNotFound]_vars

\* C28: the response of a successful create identifies the user created:
\* its data is the created item, or holds the generated userId.
C28_CreateIdentifiesUser ==
    (out.req.handler = "createUser" /\ out.resp.status = 200)
    => \/ out.resp.body.data = out.req.call.params.Item
       \/ /\ "userId" \in DOMAIN out.resp.body.data
          /\ out.resp.body.data.userId = out.req.userId

\* C29: every item of the table, in every reachable state, has entityType
\* "USER", active = true, avatar = null and createdAt = updatedAt, a time
\* the clock returned; the item a create adds carries the time its own
\* User.create read.
C29_ItemDefaults ==
    /\ [](\A i \in Table :
             /\ i.entityType = "USER"
             /\ i.active = TRUE
             /\ i.avatar = Null
             /\ i.createdAt = i.updatedAt
             /\ i.createdAt \in Times)
    /\ [][\A i \in Table' \ Table :
             /\ out'.req.handler = "createUser"
             /\ i.createdAt = out'.req.now
             /\ i.updatedAt = out'.req.now]_vars

\* Two users are stored and a DELETE /:userId has been handled.
C29_Witness ==
    /\ Cardinality(Table) = 2
    /\ out.req.handler = "deleteUser"
    /\ \A i \in Table : i.active = TRUE

=============================================================================
